---- MODULE Spec2Model ----
(***************************************************************************)
(* A model of the wiki summarizer: wiki_summarize.py (fetch_wikitext,      *)
(* build_prompt, run_summarization, publish_draft, main) and server.py     *)
(* (the /summarize endpoint).                                              *)
(*                                                                         *)
(* Strings are sequences of tokens; a token is a chunk of characters.      *)
(* Cyrillic literals of the source are transliterated.  Formatting is      *)
(* concatenation and the `in` test is a search for a contiguous            *)
(* subsequence.  Exceptions are records [cls, msg] and `except C` is a     *)
(* test against the ancestors of cls.                                      *)
(***************************************************************************)
EXTENDS Integers, Sequences, FiniteSets, TLC

VARIABLES
    MAX_WIKITEXT_CHARS, \* module constant read from the environment at import
    pc,                 \* per worker: position in the code
    entry,              \* per worker: which entry point was invoked
    title,              \* per worker: the requested title
    retries,            \* per worker: fetch_wikitext's retries
    backoff,            \* per worker: fetch_wikitext's backoff
    i,                  \* per worker: fetch_wikitext's loop index
    last_err,           \* per worker: fetch_wikitext's last_err
    fetched,            \* per worker: what fetch_wikitext returned or raised
    environ,            \* per worker: the environment values the call read
    outcome,            \* per worker: what the invoked operation returned or raised
    exitCode,           \* per worker: process exit code of main()
    httpStatus,         \* per worker: status code of the HTTP response
    site,               \* per worker: the mwclient.Site handle
    prompt,             \* per worker: the prompt built for the model call
    pub,                \* per worker: publish_draft's arguments and save request
    completion,         \* per worker: the text the completion call answered
    lastFault,          \* per worker: what the latest page read raised
    log                 \* per worker: the calls made to the outside, in order

vars == <<MAX_WIKITEXT_CHARS, pc, entry, title, retries, backoff, i, last_err,
          fetched, environ, outcome, exitCode, httpStatus, site, prompt, pub,
          completion, lastFault, log>>

(***************************************************************************)
(* Bounds                                                                  *)
(***************************************************************************)
MaxRetries == 3   \* fetch_wikitext is called directly with retries 0..MaxRetries
MaxBackoff == 2   \* and with backoff 1..MaxBackoff (seconds)
MaxChars == 3     \* MAX_WIKITEXT_CHARS ranges over 0..MaxChars

Workers == {"w1", "w2"}

None == <<"None">>          \* Python's None (str(None) is "None")

(***************************************************************************)
(* Strings                                                                 *)
(***************************************************************************)
Contains(s, sub) ==
    \E k \in 0..(Len(s) - Len(sub)) : SubSeq(s, k + 1, k + Len(sub)) = sub

Whitespace == {" ", "\n"}

RECURSIVE LStrip(_)
LStrip(s) == IF s # <<>> /\ Head(s) \in Whitespace THEN LStrip(Tail(s)) ELSE s

RECURSIVE RStrip(_)
RStrip(s) ==
    IF s # <<>> /\ s[Len(s)] \in Whitespace
    THEN RStrip(SubSeq(s, 1, Len(s) - 1)) ELSE s

Strip(s) == RStrip(LStrip(s))

Pow2(n) == 2 ^ n

(***************************************************************************)
(* Exceptions: records [cls, msg]; `except C` matches when C is cls or one *)
(* of its base classes (mwclient.errors, requests, builtins).              *)
(***************************************************************************)
Exc(cls, msg) == [cls |-> cls, msg |-> msg, code |-> <<>>]

\* mwclient's APIError carries the API's error code
ApiErr(code, msg) == [cls |-> "APIError", msg |-> msg, code |-> code]

NoExc == Exc("NoExc", <<>>)   \* "no exception": last_err = None, nothing raised

Bases(cls) ==
    CASE cls = "APIError"               -> {"MwClientError", "RuntimeError", "Exception"}
      [] cls = "InvalidResponse"        -> {"MwClientError", "RuntimeError", "Exception"}
      [] cls = "MaximumRetriesExceeded" -> {"MwClientError", "RuntimeError", "Exception"}
      [] cls = "LoginError"             -> {"MwClientError", "RuntimeError", "Exception"}
      [] cls = "InsufficientPermission" -> {"MwClientError", "RuntimeError", "Exception"}
      [] cls = "ProtectedPageError"     -> {"EditError", "InsufficientPermission",
                                            "MwClientError", "RuntimeError", "Exception"}
      [] cls = "HTTPError"              -> {"RequestException", "OSError", "Exception"}
      [] cls = "ConnectionError"        -> {"RequestException", "OSError", "Exception"}
      [] cls = "RuntimeError"           -> {"Exception"}
      [] cls = "ValueError"             -> {"Exception"}
      [] cls = "AttributeError"         -> {"Exception"}
      [] cls = "AuthenticationError"    -> {"Exception"}
      [] cls = "WikiConnectionError"    -> {"Exception"}
      [] cls = "PageNotFoundError"      -> {"Exception"}
      [] cls = "OpenAIError"            -> {"Exception"}
      [] OTHER                          -> {}

IsInstance(e, classes) == e.cls \in classes \/ Bases(e.cls) \cap classes # {}

\* str(e): the message; str(None) for last_err = None
Str(e) == IF e = NoExc THEN None ELSE e.msg

WikiConnectionError(message) ==
    Exc("WikiConnectionError", <<"Oshibka soedineniya s Wiki: ">> \o message)

PageNotFoundError(t) ==
    Exc("PageNotFoundError", <<"Statya '">> \o t \o <<"' ne naidena.">>)

OpenAIError(message) ==
    Exc("OpenAIError", <<"Oshibka OpenAI API: ">> \o message)

(***************************************************************************)
(* The wiki behind mwclient: pages by canonical name.  The markers that    *)
(* run_summarization looks for are two tokens each.                        *)
(***************************************************************************)
NotExistMarker == <<"ne", "sushchestvuet">>
EmptyMarker == <<"Pustoi", "wikitext">>

DEFAULT_SITE == <<"ru.wikipedia.org">>

Page(name, exists, redirect, target, text) ==
    [name |-> name, exists |-> exists, redirect |-> redirect,
     target |-> target, text |-> text]

\* first letter of a title is capitalised by the wiki
Capital(tok) ==
    CASE tok = "izotopy" -> "Izotopy"
      [] tok = "ne"      -> "Ne"
      [] OTHER           -> tok

PageName(t) == <<Capital(Head(t))>> \o Tail(t)

WikiPage(name) ==
    CASE name = <<"Izotopy">> ->
            Page(name, TRUE, FALSE, None, <<"I", "z", "o">>)
      [] name = <<"Izotop">> ->
            Page(name, TRUE, TRUE, <<"Izotopy">>, <<"#REDIRECT", "[[Izotopy]]">>)
      [] name = <<"Atom">> ->
            Page(name, TRUE, TRUE, <<"Izotop">>, <<"#REDIRECT", "[[Izotop]]">>)
      [] name = <<"Pusto">> ->
            Page(name, TRUE, FALSE, None, <<>>)
      [] name = <<"Ssylka">> ->
            Page(name, TRUE, TRUE, <<"Pusto">>, <<"#REDIRECT", "[[Pusto]]">>)
      [] name = <<"Krug">> ->
            Page(name, TRUE, TRUE, <<"Krug">>, <<"#REDIRECT", "[[Krug]]">>)
      [] name = <<"Ne", "sushchestvuet">> ->
            Page(name, TRUE, FALSE, None, <<"B">>)
      [] name = <<"Pustoi", "wikitext">> ->
            Page(name, TRUE, FALSE, None, <<"p", "u", "s", "t">>)
      [] OTHER ->
            Page(name, FALSE, FALSE, None, <<>>)

Titles ==
    { <<"izotopy">>, <<"Izotop">>, <<"Atom">>, <<"Pusto">>, <<"Ssylka">>,
      <<"Krug">>, <<"Net">>, <<"ne", "sushchestvuet">>, <<"Pustoi", "wikitext">> }

\* site.pages[title] and page.resolve_redirect() (one hop)
Lookup(t) == WikiPage(PageName(t))
ResolveRedirect(page) == WikiPage(page.target)

\* faults the wiki transport can raise during a page read
WikiFaults ==
    { Exc("APIError", <<"ratelimited">>),
      Exc("APIError", <<"stranitsa">> \o NotExistMarker),
      Exc("InvalidResponse", <<"bad json">>),
      Exc("HTTPError", <<"503">>),
      Exc("MaximumRetriesExceeded", <<"gave up">>),
      Exc("ConnectionError", <<"reset">>),
      Exc("ValueError", EmptyMarker) }

(***************************************************************************)
(* fetch_wikitext                                                          *)
(***************************************************************************)
\* mutant: every requests exception is retried
RetryableExceptMut ==
    {"APIError", "InvalidResponse", "RequestException", "MaximumRetriesExceeded"}

\* line 79: the exceptions the retry loop catches and retries
RetryableExcept ==
    {"APIError", "InvalidResponse", "HTTPError", "MaximumRetriesExceeded"}

\* mutant: one iteration too many (range(retries + 1))
InRangeMut(k, n) == k <= n

\* line 64: for i in range(retries)
InRange(k, n) == k < n

\* mutant: the exponent counts attempts from 1
SleepDurationMut(b, k) == b * Pow2(k + 1)

\* mutant: a constant is added to every delay
SleepDurationJitterMut(b, k) == b * Pow2(k) + 1

\* line 81: time.sleep(backoff * (2 ** i))
SleepDuration(b, k) == b * Pow2(k)

\* mutant: a redirect target that is a redirect is followed as well
ResolvedMut(page) ==
    IF page.redirect
    THEN LET p1 == ResolveRedirect(page)
         IN  IF p1.redirect THEN ResolveRedirect(p1) ELSE p1
    ELSE page

\* lines 72-74: follow a redirect, once
Resolved(page) == IF page.redirect THEN ResolveRedirect(page) ELSE page

\* lines 66-78: the body of one attempt when the transport raises nothing
ReadPage(host, t) ==
    LET page == Lookup(t)
        final == Resolved(page)
        hops == IF page.redirect THEN 1 ELSE 0
    IN  IF ~page.exists
        THEN [why |-> "missing", name |-> None, text |-> <<>>, hops |-> 0,
              exc |-> Exc("RuntimeError",
                          <<"Stranitsa '">> \o t \o <<"' ">> \o NotExistMarker
                          \o <<" na ">> \o host)]
        ELSE IF final.text = <<>>
        THEN [why |-> "empty", name |-> final.name, text |-> <<>>, hops |-> hops,
              exc |-> Exc("RuntimeError",
                          EmptyMarker \o <<" u stranitsy '">> \o final.name \o <<"'">>)]
        ELSE [why |-> "ok", name |-> final.name, text |-> final.text,
              hops |-> hops, exc |-> NoExc]

\* line 85: the fault raised when the loop ends without a return
FetchFailure(t, err) ==
    Exc("RuntimeError",
        <<"Ne udalos poluchit statyu '">> \o t \o <<"': ">> \o Str(err))

(***************************************************************************)
(* build_prompt                                                            *)
(***************************************************************************)
\* mutant: a text of exactly maxChars characters is truncated
TruncateMut(wikitext, maxChars) ==
    IF Len(wikitext) < maxChars
    THEN wikitext
    ELSE SubSeq(wikitext, 1, maxChars) \o <<"\n", "...">>

TruncationMarker == <<"\n", "...">>

\* line 89: wt
Truncate(wikitext, maxChars) ==
    IF Len(wikitext) <= maxChars
    THEN wikitext
    ELSE SubSeq(wikitext, 1, maxChars) \o TruncationMarker

\* lines 91-96 and 97: the fixed text before and after the embedded wikitext
PromptHead(t) ==
    <<"Ty - redaktor statei. ... Dai ssylku na iskhodnuyu statyu v formate {{osnovnaya statya|">>
    \o t \o <<"}}. Pishi v wiki-formate ... ", "\n", "\n", "Iskhodnaya statya: ">>
    \o t \o <<":", "\n">>

PromptTail == <<"\n", "\n", "Statya dlya shkolnika:", "\n">>

\* lines 88-98
build_prompt(wikitext, t) ==
    PromptHead(t) \o Truncate(wikitext, MAX_WIKITEXT_CHARS) \o PromptTail

(***************************************************************************)
(* Results of calls, and the log of calls made to the outside              *)
(***************************************************************************)
Nothing == [kind |-> "none", value |-> <<>>, name |-> <<>>, exc |-> NoExc]
Return(name, value) == [kind |-> "return", value |-> value, name |-> name, exc |-> NoExc]
Raise(e) == [kind |-> "raise", value |-> <<>>, name |-> <<>>, exc |-> e]

Ev(ev, res, d) == [ev |-> ev, res |-> res, d |-> d]

Set(f, t, v) == [f EXCEPT ![t] = v]
Logged(t, e) == [log EXCEPT ![t] = Append(@, e)]

(***************************************************************************)
(* fetch_wikitext, step by step                                            *)
(***************************************************************************)
\* mutant: the caller goes on to the model call whatever fetch_wikitext did
AfterFetchMut(t) == IF entry[t] = "fetch" THEN "done" ELSE "rs_model"

\* where fetch_wikitext returns to
AfterFetch(t) == IF entry[t] = "fetch" THEN "done" ELSE "rs_fetched"

FetchDone(t, r) ==
    /\ fetched' = Set(fetched, t, r)
    /\ pc' = Set(pc, t, AfterFetch(t))
    /\ outcome' = IF entry[t] = "fetch" THEN Set(outcome, t, r) ELSE outcome

\* mutant: last_err keeps the first exception
CaughtMut(t, e) ==
    LET kept == IF last_err[t] = NoExc THEN e ELSE last_err[t]
    IN  IF IsInstance(e, RetryableExcept)
        THEN /\ last_err' = Set(last_err, t, kept)
             /\ pc' = Set(pc, t, "fetch_sleep")
             /\ UNCHANGED <<fetched, outcome>>
        ELSE /\ last_err' = Set(last_err, t, kept)
             /\ pc' = Set(pc, t, "fetch_break")
             /\ UNCHANGED <<fetched, outcome>>

\* lines 79-84: what the loop does with an exception raised in the try block
Caught(t, e) ==
    IF IsInstance(e, RetryableExcept)
    THEN /\ last_err' = Set(last_err, t, e)
         /\ pc' = Set(pc, t, "fetch_sleep")
         /\ UNCHANGED <<fetched, outcome>>
    ELSE IF IsInstance(e, {"Exception"})
    THEN /\ last_err' = Set(last_err, t, e)
         /\ pc' = Set(pc, t, "fetch_break")
         /\ UNCHANGED <<fetched, outcome>>
    ELSE /\ FetchDone(t, Raise(e))
         /\ UNCHANGED last_err

\* a direct call fetch_wikitext(site, title, retries, backoff)
CallFetch(t) ==
    /\ pc[t] = "idle"
    /\ \E ti \in Titles, r \in 0..MaxRetries, b \in 1..MaxBackoff :
          /\ title' = Set(title, t, ti)
          /\ retries' = Set(retries, t, r)
          /\ backoff' = Set(backoff, t, b)
    /\ entry' = Set(entry, t, "fetch")
    /\ site' = Set(site, t, DEFAULT_SITE)
    /\ i' = Set(i, t, 0)
    /\ last_err' = Set(last_err, t, NoExc)
    /\ pc' = Set(pc, t, "fetch_for")
    /\ UNCHANGED <<MAX_WIKITEXT_CHARS, completion, lastFault, fetched, environ, outcome, exitCode,
                   httpStatus, prompt, pub, log>>

\* lines 64-78: one iteration of the loop; the transport raises f or nothing
FetchAttemptWith(t, faults) ==
    /\ pc[t] = "fetch_for"
    /\ InRange(i[t], retries[t])
    /\ \E f \in faults \cup {NoExc} :
          LET r == ReadPage(site[t], title[t])
          IN  IF f # NoExc
              THEN /\ Caught(t, f)
                   /\ log' = Logged(t, Ev("read", f.cls, 0))
                   /\ lastFault' = Set(lastFault, t, f)
              ELSE IF r.why = "ok"
              THEN /\ FetchDone(t, Return(r.name, r.text))
                   /\ log' = Logged(t, Ev("read", "ok", r.hops))
                   /\ lastFault' = Set(lastFault, t, NoExc)
                   /\ UNCHANGED last_err
              ELSE /\ Caught(t, r.exc)
                   /\ log' = Logged(t, Ev("read", r.why, r.hops))
                   /\ lastFault' = Set(lastFault, t, r.exc)
    /\ UNCHANGED <<MAX_WIKITEXT_CHARS, completion, entry, title, retries, backoff, i, environ,
                   exitCode, httpStatus, site, prompt, pub>>

FetchAttempt(t) == FetchAttemptWith(t, WikiFaults)

\* mutant: the loop index is shared by all workers
FetchSleepSharedMut(t) ==
    /\ pc[t] = "fetch_sleep"
    /\ log' = Logged(t, Ev("sleep", "", SleepDuration(backoff[t], i[t])))
    /\ i' = [u \in Workers |-> i[t] + 1]
    /\ pc' = Set(pc, t, "fetch_for")
    /\ UNCHANGED <<MAX_WIKITEXT_CHARS, completion, lastFault, entry, title, retries,
                   backoff, last_err, fetched, environ, outcome, exitCode,
                   httpStatus, site, prompt, pub>>

\* mutant: no sleep after the last attempt
FetchSleepMut(t) ==
    /\ pc[t] = "fetch_sleep"
    /\ log' = IF i[t] + 1 < retries[t]
              THEN Logged(t, Ev("sleep", "", SleepDuration(backoff[t], i[t])))
              ELSE log
    /\ i' = Set(i, t, i[t] + 1)
    /\ pc' = Set(pc, t, "fetch_for")
    /\ UNCHANGED <<MAX_WIKITEXT_CHARS, completion, lastFault, entry, title, retries,
                   backoff, last_err, fetched, environ, outcome, exitCode,
                   httpStatus, site, prompt, pub>>

\* line 81, and the loop's next index
FetchSleep(t) ==
    /\ pc[t] = "fetch_sleep"
    /\ log' = Logged(t, Ev("sleep", "", SleepDuration(backoff[t], i[t])))
    /\ i' = Set(i, t, i[t] + 1)
    /\ pc' = Set(pc, t, "fetch_for")
    /\ UNCHANGED <<MAX_WIKITEXT_CHARS, completion, lastFault, entry, title, retries, backoff, last_err,
                   fetched, environ, outcome, exitCode, httpStatus, site, prompt, pub>>

\* line 85: the loop ended (range exhausted, or break)
FetchEnd(t) ==
    /\ \/ pc[t] = "fetch_for" /\ ~InRange(i[t], retries[t])
       \/ pc[t] = "fetch_break"
    /\ FetchDone(t, Raise(FetchFailure(title[t], last_err[t])))
    /\ UNCHANGED <<MAX_WIKITEXT_CHARS, completion, lastFault, entry, title, retries, backoff, i, last_err,
                   environ, exitCode, httpStatus, site, prompt, pub, log>>

(***************************************************************************)
(* run_summarization                                                       *)
(***************************************************************************)
\* values an environment variable can have: unset, empty, set
EnvVals == {None, <<>>, <<"sk">>}

\* mutant: only an unset variable counts as missing
FalsyMut(v) == v = None

\* lines 113, 165: `not v` for a string or None
Falsy(v) == v = None \/ v = <<>>

\* Python's `a or b`
Or(a, b) == IF Falsy(a) THEN b ELSE a

\* site hosts a caller passes, with and without a scheme
SiteHosts == {DEFAULT_SITE, <<"https", "://">> \o DEFAULT_SITE}

\* line 52: the host without its scheme
HostOf(site_host) ==
    IF Contains(site_host, <<"://">>)
    THEN LET k == CHOOSE j \in 1..Len(site_host) :
                     /\ site_host[j] = "://"
                     /\ \A m \in 1..(j - 1) : site_host[m] # "://"
         IN  SubSeq(site_host, k + 1, Len(site_host))
    ELSE site_host

\* faults of mwclient.Site(...) and of the completion call
ConnectFaults == {Exc("ConnectionError", <<"reset">>), Exc("InvalidResponse", <<"bad json">>)}
ModelFaults == {Exc("AuthenticationError", <<"401">>)}

\* message.content of the first choice; None when the completion has no text
Completions == {<<" ", "S", "\n">>, <<"S">>, None}

\* mutant: the empty-text signal is not recognised
ClassifyFetchFaultMut(e, t) ==
    IF Contains(Str(e), <<"ne", "sushchestvuet">>)
    THEN Exc("PageNotFoundError", <<"Statya '">> \o t \o <<"' ne naidena.">>)
    ELSE Exc("WikiConnectionError", <<"Oshibka soedineniya s Wiki: ">> \o Str(e))

\* lines 126-129: the fault run_summarization raises for a fault of fetch_wikitext
ClassifyFetchFault(e, t) ==
    LET msg == Str(e)
    IN  IF Contains(msg, NotExistMarker) \/ Contains(msg, EmptyMarker)
        THEN PageNotFoundError(t)
        ELSE WikiConnectionError(msg)

\* mutant: .strip() is called outside the try block
CompletedMut(c) ==
    IF c = None
    THEN Raise(Exc("AttributeError", <<"'NoneType' object has no attribute 'strip'">>))
    ELSE Return(<<>>, Strip(c))

\* lines 141-143: the completion text, stripped; any fault becomes OpenAIError
Completed(c) ==
    IF c = None
    THEN Raise(OpenAIError(<<"'NoneType' object has no attribute 'strip'">>))
    ELSE Return(<<>>, Strip(c))

RSDone(t, r) ==
    /\ outcome' = Set(outcome, t, r)
    /\ pc' = Set(pc, t, "rs_done")

\* main() (CLI) or the /summarize endpoint (HTTP) calls run_summarization
CallSummarizeFrom(t, entries, titles, hosts) ==
    /\ pc[t] = "idle"
    /\ \E e \in entries : entry' = Set(entry, t, e)
    /\ \E ti \in titles : title' = Set(title, t, ti)
    /\ \E h \in hosts : site' = Set(site, t, h)
    /\ pc' = Set(pc, t, "rs_env")
    /\ UNCHANGED <<MAX_WIKITEXT_CHARS, completion, lastFault, retries, backoff, i, last_err, fetched,
                   environ, outcome, exitCode, httpStatus, prompt, pub, log>>

CallSummarize(t) == CallSummarizeFrom(t, {"cli", "http"}, Titles, SiteHosts)

\* lines 110-114
RSReadEnvFrom(t, vals) ==
    /\ pc[t] = "rs_env"
    /\ \E chat \in vals, openai \in vals :
          LET api_key == Or(chat, openai)
          IN  /\ environ' = Set(environ, t,
                        [CHAT_API_KEY |-> chat, OPENAI_API_KEY |-> openai])
              /\ IF Falsy(api_key)
                 THEN RSDone(t, Raise(OpenAIError(
                          <<"Peremennaya okruzheniya OPENAI_API_KEY ili CHAT_API_KEY ne ustanovlena.">>)))
                 ELSE /\ pc' = Set(pc, t, "rs_connect")
                      /\ UNCHANGED outcome
    /\ UNCHANGED <<MAX_WIKITEXT_CHARS, completion, lastFault, entry, title, retries, backoff, i, last_err,
                   fetched, exitCode, httpStatus, site, prompt, pub, log>>

RSReadEnv(t) == RSReadEnvFrom(t, EnvVals)

\* lines 117-124: connect_wiki, then the call fetch_wikitext(site, title)
RSConnect(t) ==
    /\ pc[t] = "rs_connect"
    /\ log' = Logged(t, Ev("open", "", 0))
    /\ \E f \in ConnectFaults \cup {NoExc} :
          IF f # NoExc
          THEN /\ RSDone(t, Raise(WikiConnectionError(Str(f))))
               /\ UNCHANGED <<site, retries, backoff, i, last_err>>
          ELSE /\ site' = Set(site, t, HostOf(site[t]))
               /\ retries' = Set(retries, t, 3)
               /\ backoff' = Set(backoff, t, 1)
               /\ i' = Set(i, t, 0)
               /\ last_err' = Set(last_err, t, NoExc)
               /\ pc' = Set(pc, t, "fetch_for")
               /\ UNCHANGED outcome
    /\ UNCHANGED <<MAX_WIKITEXT_CHARS, completion, lastFault, entry, title, fetched, environ, exitCode,
                   httpStatus, prompt, pub>>

\* lines 125-132: fetch_wikitext has returned or raised
RSFetched(t) ==
    /\ pc[t] = "rs_fetched"
    /\ IF fetched[t].kind = "raise"
       THEN /\ RSDone(t, Raise(ClassifyFetchFault(fetched[t].exc, title[t])))
            /\ UNCHANGED prompt
       ELSE /\ prompt' = Set(prompt, t, build_prompt(fetched[t].value, fetched[t].name))
            /\ pc' = Set(pc, t, "rs_model")
            /\ UNCHANGED outcome
    /\ UNCHANGED <<MAX_WIKITEXT_CHARS, completion, lastFault, entry, title, retries, backoff, i, last_err,
                   fetched, environ, exitCode, httpStatus, site, pub, log>>

\* lines 135-143: the completion call
RSModel(t) ==
    /\ pc[t] = "rs_model"
    /\ log' = Logged(t, Ev("model", "", 0))
    /\ \E f \in ModelFaults \cup {NoExc}, c \in Completions :
          IF f # NoExc
          THEN /\ RSDone(t, Raise(OpenAIError(Str(f))))
               /\ UNCHANGED completion
          ELSE /\ RSDone(t, Completed(c))
               /\ completion' = Set(completion, t, c)
    /\ UNCHANGED <<MAX_WIKITEXT_CHARS, lastFault, entry, title, retries, backoff, i, last_err,
                   fetched, environ, exitCode, httpStatus, site, prompt, pub>>

(***************************************************************************)
(* The entry points: main() of wiki_summarize.py and summarize() of        *)
(* server.py                                                               *)
(***************************************************************************)
\* mutant: the exit codes of PageNotFoundError and WikiConnectionError swapped
ExitCodeMut(o) ==
    IF o.kind = "return" THEN 0
    ELSE IF o.exc.cls = "PageNotFoundError" THEN 2
    ELSE IF o.exc.cls = "WikiConnectionError" THEN 3
    ELSE IF o.exc.cls = "OpenAIError" THEN 4
    ELSE 99

\* wiki_summarize.py lines 212-238: the process exit code
ExitCode(o) ==
    IF o.kind = "return" THEN 0
    ELSE IF IsInstance(o.exc, {"PageNotFoundError"}) THEN 3
    ELSE IF IsInstance(o.exc, {"WikiConnectionError"}) THEN 2
    ELSE IF IsInstance(o.exc, {"OpenAIError"}) THEN 4
    ELSE IF IsInstance(o.exc, {"Exception"}) THEN 99
    ELSE 1

\* server.py lines 23-36: the response status
HttpStatus(o) ==
    IF o.kind = "return" THEN 200
    ELSE IF IsInstance(o.exc, {"PageNotFoundError"}) THEN 404
    ELSE IF IsInstance(o.exc, {"WikiConnectionError"}) THEN 502
    ELSE IF IsInstance(o.exc, {"OpenAIError"}) THEN 500
    ELSE 500

NoCode == 0 - 1   \* no exit code or status yet

MainExit(t) ==
    /\ pc[t] = "rs_done"
    /\ entry[t] = "cli"
    /\ exitCode' = Set(exitCode, t, ExitCode(outcome[t]))
    /\ pc' = Set(pc, t, "done")
    /\ UNCHANGED <<MAX_WIKITEXT_CHARS, completion, lastFault, entry, title, retries, backoff, i, last_err,
                   fetched, environ, outcome, httpStatus, site, prompt, pub, log>>

HttpRespond(t) ==
    /\ pc[t] = "rs_done"
    /\ entry[t] = "http"
    /\ httpStatus' = Set(httpStatus, t, HttpStatus(outcome[t]))
    /\ pc' = Set(pc, t, "done")
    /\ UNCHANGED <<MAX_WIKITEXT_CHARS, completion, lastFault, entry, title, retries, backoff, i, last_err,
                   fetched, environ, outcome, exitCode, site, prompt, pub, log>>

\* results the wrapped call can have: a summary, or an exception of any class
CallResults ==
    { Return(<<>>, <<"S">>),
      Raise(PageNotFoundError(<<"Net">>)),
      Raise(WikiConnectionError(<<"reset">>)),
      Raise(OpenAIError(<<"401">>)),
      Raise(Exc("ValueError", <<"boom">>)),
      Raise(Exc("RuntimeError", <<"boom">>)) }

\* both except chains applied to one result of the call they wrap
HandleResult(t) ==
    /\ pc[t] = "idle"
    /\ entry' = Set(entry, t, "handlers")
    /\ \E o \in CallResults :
          /\ outcome' = Set(outcome, t, o)
          /\ exitCode' = Set(exitCode, t, ExitCode(o))
          /\ httpStatus' = Set(httpStatus, t, HttpStatus(o))
    /\ pc' = Set(pc, t, "done")
    /\ UNCHANGED <<MAX_WIKITEXT_CHARS, completion, lastFault, title, retries, backoff, i, last_err,
                   fetched, environ, site, prompt, pub, log>>

(***************************************************************************)
(* publish_draft                                                           *)
(***************************************************************************)
\* str.lower() on the tokens an error code is made of
LowerTok(tok) == IF tok = "Captcha" THEN "captcha" ELSE tok
Lower(s) == [k \in 1..Len(s) |-> LowerTok(s[k])]

\* mutant: createonly is never requested
SaveKwargsMut(summary, minor, overwrite) ==
    [summary |-> summary, minor |-> minor, createonly |-> FALSE]

\* lines 185-187: the keyword arguments of page.save
SaveKwargs(summary, minor, overwrite) ==
    [summary |-> summary, minor |-> minor, createonly |-> ~overwrite]

\* line 181: the draft page of the user
DraftTitle(username, article_title) ==
    <<"Uchastnik:">> \o username \o <<"/Chernovik/">> \o article_title

\* faults of mwclient.Site(...), site.login(...) and page.save(...)
SiteFaults == {Exc("ConnectionError", <<"reset">>)}
LoginFaults ==
    { Exc("LoginError", <<"wrong password">>), ApiErr(<<"ratelimited">>, <<"slow down">>),
      Exc("HTTPError", <<"503">>), Exc("ConnectionError", <<"reset">>) }
SaveFaults ==
    { Exc("ProtectedPageError", <<"protectedpage">>),
      Exc("InsufficientPermission", <<"blocked">>),
      ApiErr(<<"Captcha", "-needed">>, <<"solve it">>),
      ApiErr(<<"badtoken">>, <<"invalid token">>),
      Exc("ConnectionError", <<"reset">>) }

\* the wiki's answer to an edit: with createonly an existing page is refused
\* (API error articleexists) and left as it was
WikiSave(before, text, kwargs) ==
    IF kwargs.createonly /\ before # None
    THEN [after |-> before, exc |-> ApiErr(<<"articleexists">>, <<"page exists">>)]
    ELSE [after |-> text, exc |-> NoExc]

\* lines 177-178: faults of login that become "login failed"
LoginExcept == {"LoginError", "APIError", "HTTPError"}

\* mutant: the except clauses for protection and for rights in the other order
ClassifySaveFaultMut(e) ==
    IF IsInstance(e, {"InsufficientPermission"})
    THEN Exc("RuntimeError", <<"Nedostatochno prav dlya pravki: ">> \o Str(e))
    ELSE IF IsInstance(e, {"ProtectedPageError"})
    THEN Exc("RuntimeError", <<"Stranitsa zashchishchena ot zapisi: ">> \o Str(e))
    ELSE IF IsInstance(e, {"APIError"})
    THEN IF e.code # <<>> /\ Contains(Lower(e.code), <<"captcha">>)
         THEN Exc("RuntimeError", <<"Pravka trebuet CAPTCHA">>)
         ELSE Exc("RuntimeError", <<"Oshibka API pri sokhranenii: ">> \o Str(e))
    ELSE Exc("RuntimeError", <<"Ne udalos sokhranit stranitsu: ">> \o Str(e))

\* lines 192-202: the fault publish_draft raises for a fault of page.save
ClassifySaveFault(e) ==
    IF IsInstance(e, {"ProtectedPageError"})
    THEN Exc("RuntimeError", <<"Stranitsa zashchishchena ot zapisi: ">> \o Str(e))
    ELSE IF IsInstance(e, {"InsufficientPermission"})
    THEN Exc("RuntimeError", <<"Nedostatochno prav dlya pravki: ">> \o Str(e))
    ELSE IF IsInstance(e, {"APIError"})
    THEN IF e.code # <<>> /\ Contains(Lower(e.code), <<"captcha">>)
         THEN Exc("RuntimeError", <<"Pravka trebuet CAPTCHA">>)
         ELSE Exc("RuntimeError", <<"Oshibka API pri sokhranenii: ">> \o Str(e))
    ELSE IF IsInstance(e, {"Exception"})
    THEN Exc("RuntimeError", <<"Ne udalos sokhranit stranitsu: ">> \o Str(e))
    ELSE e

\* mutant: only the absence of both is refused
CredsMissingMut(username, password) == Falsy(username) /\ Falsy(password)

\* line 165: if not username or not password
CredsMissing(username, password) == Falsy(username) \/ Falsy(password)

NoPub ==
    [content |-> <<>>, article_title |-> <<>>, username |-> None, password |-> None,
     overwrite |-> TRUE, before |-> None, after |-> None, saved |-> FALSE,
     fault |-> NoExc, given |-> <<None, None>>, env |-> <<None, None>>,
     kwargs |-> SaveKwargs(<<>>, FALSE, TRUE)]

PubDone(t, r) ==
    /\ outcome' = Set(outcome, t, r)
    /\ pc' = Set(pc, t, "done")

\* a call publish_draft(content, article_title, ..., username, password, overwrite)
CallPublish(t) ==
    /\ pc[t] = "idle"
    /\ entry' = Set(entry, t, "publish")
    /\ \E u \in {None, <<"bot">>}, p \in {None, <<"pw">>}, ow \in BOOLEAN :
          pub' = Set(pub, t, [NoPub EXCEPT !.content = <<"new">>,
                                           !.article_title = <<"Izotopy">>,
                                           !.username = u, !.password = p,
                                           !.given = <<u, p>>,
                                           !.overwrite = ow])
    /\ pc' = Set(pc, t, "pub_creds")
    /\ UNCHANGED <<MAX_WIKITEXT_CHARS, completion, lastFault, title, retries, backoff, i, last_err, fetched,
                   environ, outcome, exitCode, httpStatus, site, prompt, log>>

\* lines 163-166
PubCreds(t) ==
    /\ pc[t] = "pub_creds"
    /\ \E eu \in EnvVals, ep \in EnvVals :
          LET username == Or(pub[t].username, eu)
              password == Or(pub[t].password, ep)
          IN  /\ pub' = Set(pub, t, [pub[t] EXCEPT !.username = username,
                                                   !.password = password,
                                                   !.env = <<eu, ep>>])
              /\ IF CredsMissing(username, password)
                 THEN PubDone(t, Raise(Exc("RuntimeError",
                          <<"Ne zadany kredy: WIKI_USERNAME / WIKI_PASSWORD">>)))
                 ELSE /\ pc' = Set(pc, t, "pub_site")
                      /\ UNCHANGED outcome
    /\ UNCHANGED <<MAX_WIKITEXT_CHARS, completion, lastFault, entry, title, retries, backoff, i, last_err,
                   fetched, environ, exitCode, httpStatus, site, prompt, log>>

\* lines 168-173: mwclient.Site(...), outside any try
PubSite(t) ==
    /\ pc[t] = "pub_site"
    /\ log' = Logged(t, Ev("site", "", 0))
    /\ \E f \in SiteFaults \cup {NoExc} :
          IF f # NoExc
          THEN PubDone(t, Raise(f))
          ELSE /\ pc' = Set(pc, t, "pub_login")
               /\ UNCHANGED outcome
    /\ UNCHANGED <<MAX_WIKITEXT_CHARS, completion, lastFault, entry, title, retries, backoff, i, last_err,
                   fetched, environ, exitCode, httpStatus, site, prompt, pub>>

\* lines 175-178
PubLogin(t) ==
    /\ pc[t] = "pub_login"
    /\ log' = Logged(t, Ev("login", "", 0))
    /\ \E f \in LoginFaults \cup {NoExc} :
          IF f = NoExc
          THEN /\ pc' = Set(pc, t, "pub_save")
               /\ UNCHANGED outcome
          ELSE IF IsInstance(f, LoginExcept)
          THEN PubDone(t, Raise(Exc("RuntimeError", <<"Login ne udalsya: ">> \o Str(f))))
          ELSE PubDone(t, Raise(f))
    /\ UNCHANGED <<MAX_WIKITEXT_CHARS, completion, lastFault, entry, title, retries, backoff, i, last_err,
                   fetched, environ, exitCode, httpStatus, site, prompt, pub>>

\* lines 181-202: the save; the draft page exists already (before) or not
PubSave(t) ==
    /\ pc[t] = "pub_save"
    /\ log' = Logged(t, Ev("save", "", 0))
    /\ \E before \in {None, <<"old">>}, f \in SaveFaults \cup {NoExc} :
          LET kwargs == SaveKwargs(<<"summary">>, FALSE, pub[t].overwrite)
              answer == IF f # NoExc
                        THEN [after |-> before, exc |-> f]
                        ELSE WikiSave(before, pub[t].content, kwargs)
          IN  /\ pub' = Set(pub, t, [pub[t] EXCEPT !.before = before,
                                                   !.after = answer.after,
                                                   !.saved = TRUE,
                                                   !.fault = answer.exc,
                                                   !.kwargs = kwargs])
              /\ IF answer.exc = NoExc
                 THEN PubDone(t, Return(<<>>,
                          DraftTitle(pub[t].username, pub[t].article_title)))
                 ELSE PubDone(t, Raise(ClassifySaveFault(answer.exc)))
    /\ UNCHANGED <<MAX_WIKITEXT_CHARS, completion, lastFault, entry, title, retries, backoff, i, last_err,
                   fetched, environ, exitCode, httpStatus, site, prompt>>

(***************************************************************************)
(* Specification: one worker runs one invocation                           *)
(***************************************************************************)
NoEnv == [CHAT_API_KEY |-> None, OPENAI_API_KEY |-> None]

Init ==
    /\ MAX_WIKITEXT_CHARS \in 0..MaxChars
    /\ pc = [t \in Workers |-> IF t = "w1" THEN "idle" ELSE "off"]
    /\ entry = [t \in Workers |-> "none"]
    /\ title = [t \in Workers |-> <<>>]
    /\ retries = [t \in Workers |-> 0]
    /\ backoff = [t \in Workers |-> 0]
    /\ i = [t \in Workers |-> 0]
    /\ last_err = [t \in Workers |-> NoExc]
    /\ fetched = [t \in Workers |-> Nothing]
    /\ environ = [t \in Workers |-> NoEnv]
    /\ outcome = [t \in Workers |-> Nothing]
    /\ exitCode = [t \in Workers |-> NoCode]
    /\ httpStatus = [t \in Workers |-> NoCode]
    /\ site = [t \in Workers |-> <<>>]
    /\ prompt = [t \in Workers |-> <<>>]
    /\ pub = [t \in Workers |-> NoPub]
    /\ completion = [t \in Workers |-> None]
    /\ lastFault = [t \in Workers |-> NoExc]
    /\ log = [t \in Workers |-> <<>>]

Step(t) ==
    \/ CallFetch(t)
    \/ FetchAttempt(t)
    \/ FetchSleep(t)
    \/ FetchEnd(t)
    \/ CallSummarize(t)
    \/ RSReadEnv(t)
    \/ RSConnect(t)
    \/ RSFetched(t)
    \/ RSModel(t)
    \/ MainExit(t)
    \/ HttpRespond(t)
    \/ HandleResult(t)
    \/ CallPublish(t)
    \/ PubCreds(t)
    \/ PubSite(t)
    \/ PubLogin(t)
    \/ PubSave(t)

Next == \E t \in Workers : Step(t)

Spec == Init /\ [][Next]_vars

(***************************************************************************)
(* Specification: two requests of the /summarize endpoint at once, each in *)
(* its own worker thread (asyncio.to_thread), with fewer inputs            *)
(***************************************************************************)
ConcTitles == {<<"izotopy">>, <<"Net">>}
ConcEnv == {None, <<"sk">>}
ConcFaults == {Exc("HTTPError", <<"503">>), Exc("ConnectionError", <<"reset">>)}

InitConc ==
    /\ MAX_WIKITEXT_CHARS = 2
    /\ pc = [t \in Workers |-> "idle"]
    /\ entry = [t \in Workers |-> "none"]
    /\ title = [t \in Workers |-> <<>>]
    /\ retries = [t \in Workers |-> 0]
    /\ backoff = [t \in Workers |-> 0]
    /\ i = [t \in Workers |-> 0]
    /\ last_err = [t \in Workers |-> NoExc]
    /\ fetched = [t \in Workers |-> Nothing]
    /\ environ = [t \in Workers |-> NoEnv]
    /\ outcome = [t \in Workers |-> Nothing]
    /\ exitCode = [t \in Workers |-> NoCode]
    /\ httpStatus = [t \in Workers |-> NoCode]
    /\ site = [t \in Workers |-> <<>>]
    /\ prompt = [t \in Workers |-> <<>>]
    /\ pub = [t \in Workers |-> NoPub]
    /\ completion = [t \in Workers |-> None]
    /\ lastFault = [t \in Workers |-> NoExc]
    /\ log = [t \in Workers |-> <<>>]

StepConc(t) ==
    \/ CallSummarizeFrom(t, {"http"}, ConcTitles, {DEFAULT_SITE})
    \/ RSReadEnvFrom(t, ConcEnv)
    \/ RSConnect(t)
    \/ FetchAttemptWith(t, ConcFaults)
    \/ FetchSleep(t)
    \/ FetchEnd(t)
    \/ RSFetched(t)
    \/ RSModel(t)
    \/ HttpRespond(t)

NextConc == \E t \in Workers : StepConc(t)

SpecConc == InitConc /\ [][NextConc]_vars

(***************************************************************************)
(* Properties                                                              *)
(***************************************************************************)
\* the page reads and sleeps of a worker's fetch_wikitext call, in order
FetchEvents(t) == SelectSeq(log[t], LAMBDA e : e.ev \in {"read", "sleep"})
ReadEvents(t) == SelectSeq(log[t], LAMBDA e : e.ev = "read")
SleepEvents(t) == SelectSeq(log[t], LAMBDA e : e.ev = "sleep")

\* the transport faults the retry loop is specified to retry
TransportFaultClasses ==
    {"APIError", "InvalidResponse", "HTTPError", "MaximumRetriesExceeded"}

\* the worker is inside or past a call of fetch_wikitext
InFetch(t) == pc[t] \in {"fetch_for", "fetch_sleep", "fetch_break"}
FetchReturned(t) == ~InFetch(t) /\ fetched[t].kind = "return"
FetchRaised(t) == ~InFetch(t) /\ fetched[t].kind = "raise"

\* the worker's run_summarization has ended (returned or raised)
Summarized(t) == entry[t] \in {"cli", "http"} /\ pc[t] \in {"rs_done", "done"}

\* C1: one call of fetch_wikitext performs at most maxAttempts (retries) page
\* reads, for every retries >= 0 and every sequence of read outcomes.
C1_AtMostMaxAttempts ==
    \A t \in Workers : Len(ReadEvents(t)) <= retries[t]

C1_Witness ==
    \E t \in Workers :
        /\ entry[t] = "fetch" /\ pc[t] = "done"
        /\ retries[t] = MaxRetries
        /\ Len(ReadEvents(t)) = MaxRetries

\* C2: when fetch_wikitext returns, it returns the (name, text) of the attempt
\* that succeeded, and the k attempts before it each raised a transport fault
\* and were each followed by one sleep, of backoff*2^0, backoff*2^1, ...,
\* backoff*2^(k-1) in this order; no other sleep occurred.
C2_SleepsBeforeSuccess ==
    \A t \in Workers :
        FetchReturned(t) =>
            LET ev == FetchEvents(t)
                k == Len(SleepEvents(t))
                r == ReadPage(site[t], title[t])
            IN  /\ Len(ev) = 2 * k + 1
                /\ k < retries[t]
                /\ \A j \in 1..k :
                      /\ ev[2 * j - 1].ev = "read"
                      /\ ev[2 * j - 1].res \in TransportFaultClasses
                      /\ ev[2 * j] = Ev("sleep", "", backoff[t] * (2 ^ (j - 1)))
                /\ ev[2 * k + 1].ev = "read" /\ ev[2 * k + 1].res = "ok"
                /\ fetched[t] = Return(r.name, r.text)

C2_Witness ==
    \E t \in Workers :
        /\ FetchReturned(t)
        /\ retries[t] = 3 /\ backoff[t] = 2
        /\ [j \in 1..Len(SleepEvents(t)) |-> SleepEvents(t)[j].d] = <<2, 4>>

\* C3: a page read that raises anything but a whitelisted transport fault
\* (the missing-page and empty-text signals included) is the last page read of
\* the call and no sleep follows it, at any attempt index, and the call fails.
C3_NoRetryAfterOtherFault ==
    \A t \in Workers :
        LET ev == FetchEvents(t)
        IN  \A j \in 1..Len(ev) :
                (ev[j].ev = "read" /\ ev[j].res \notin TransportFaultClasses \cup {"ok"})
                => /\ j = Len(ev)
                   /\ pc[t] = "fetch_break" \/ FetchRaised(t)

C3_Witness ==
    \E t \in Workers :
        /\ FetchRaised(t) /\ pc[t] = "done"
        /\ retries[t] = 3
        /\ log[t] = <<Ev("read", "missing", 0)>>

\* what the last page read of the worker reported
LastRead(t) == ReadEvents(t)[Len(ReadEvents(t))].res

\* C4: when the page read reports a missing page or an empty text,
\* run_summarization raises PageNotFoundError, never WikiConnectionError.
C4_MissingOrEmptyIsPageNotFound ==
    \A t \in Workers :
        (Summarized(t) /\ ReadEvents(t) # <<>> /\ LastRead(t) \in {"missing", "empty"})
        => /\ outcome[t].kind = "raise"
           /\ outcome[t].exc = PageNotFoundError(title[t])

C4_Witness ==
    \E t \in Workers :
        /\ Summarized(t) /\ ReadEvents(t) # <<>> /\ LastRead(t) = "empty"
        /\ Len(ReadEvents(t)) = 2
        /\ outcome[t].exc.cls = "PageNotFoundError"

\* C5: when fetch_wikitext fails for any reason other than the missing-page or
\* empty-text signal, run_summarization raises WikiConnectionError, never
\* PageNotFoundError, for every title and every fault message.
C5_OtherFaultIsConnectionFault ==
    \A t \in Workers :
        (/\ Summarized(t) /\ fetched[t].kind = "raise"
         /\ (ReadEvents(t) = <<>> \/ LastRead(t) \notin {"missing", "empty"}))
        => outcome[t].exc.cls = "WikiConnectionError"

\* C6: with CHAT_API_KEY and OPENAI_API_KEY both unset or empty,
\* run_summarization raises OpenAIError and has opened no site, read no page
\* and called no model.
C6_NoKeyFailsBeforeAnyCall ==
    \A t \in Workers :
        (/\ entry[t] \in {"cli", "http"} /\ pc[t] \notin {"idle", "rs_env"}
         /\ environ[t].CHAT_API_KEY \in {None, <<>>}
         /\ environ[t].OPENAI_API_KEY \in {None, <<>>})
        => /\ pc[t] \in {"rs_done", "done"}
           /\ outcome[t].kind = "raise"
           /\ outcome[t].exc.cls = "OpenAIError"
           /\ log[t] = <<>>

C6_Witness ==
    \E t \in Workers :
        /\ Summarized(t)
        /\ environ[t] = [CHAT_API_KEY |-> <<>>, OPENAI_API_KEY |-> None]
        /\ outcome[t].exc.cls = "OpenAIError"

\* C7: when the requested page is a redirect to T, a successful read returns
\* T's name and T's text, also when T is itself a redirect (one hop only);
\* unless T is the requested page itself, that is neither the name nor the
\* text of the requested page.
C7_RedirectOneHop ==
    \A t \in Workers :
        (FetchReturned(t) /\ WikiPage(PageName(title[t])).redirect)
        => LET asked == WikiPage(PageName(title[t]))
               T == WikiPage(asked.target)
           IN  /\ fetched[t].name = T.name
               /\ fetched[t].value = T.text
               /\ T.name # asked.name =>
                     /\ fetched[t].name # asked.name
                     /\ fetched[t].value # asked.text

C7_Witness ==
    \E t \in Workers :
        /\ FetchReturned(t)
        /\ title[t] = <<"Atom">>
        /\ fetched[t] = Return(<<"Izotop">>, <<"#REDIRECT", "[[Izotopy]]">>)

\* the text build_prompt embedded between the fixed head and tail
Embedded(t) ==
    SubSeq(prompt[t], Len(PromptHead(fetched[t].name)) + 1,
           Len(prompt[t]) - Len(PromptTail))

PromptBuilt(t) ==
    entry[t] \in {"cli", "http"} /\ FetchReturned(t) /\ pc[t] # "rs_fetched"

\* C8: build_prompt embeds the wikitext unmodified, nothing appended, when
\* len(wikitext) <= MAX_WIKITEXT_CHARS (equality included), and otherwise
\* exactly its first MAX_WIKITEXT_CHARS characters followed by one truncation
\* marker.
C8_TruncationBoundary ==
    \A t \in Workers :
        PromptBuilt(t) =>
            LET w == fetched[t].value
                m == MAX_WIKITEXT_CHARS
            IN  /\ prompt[t] = PromptHead(fetched[t].name) \o Embedded(t) \o PromptTail
                /\ Len(w) <= m => Embedded(t) = w
                /\ Len(w) > m =>
                      /\ Len(Embedded(t)) = m + 2
                      /\ \A k \in 1..m : Embedded(t)[k] = w[k]
                      /\ Embedded(t)[m + 1] = "\n" /\ Embedded(t)[m + 2] = "..."

C8_Witness ==
    \E t \in Workers :
        /\ PromptBuilt(t)
        /\ MAX_WIKITEXT_CHARS = 2
        /\ fetched[t].value = <<"I", "z", "o">>
        /\ Embedded(t) = <<"I", "z", "\n", "...">>

\* the taxonomy value of a result of run_summarization
Taxonomy(o) ==
    IF o.kind = "return" THEN "success"
    ELSE IF o.exc.cls = "PageNotFoundError" THEN "PageNotFound"
    ELSE IF o.exc.cls = "WikiConnectionError" THEN "ConnectionFault"
    ELSE IF o.exc.cls = "OpenAIError" THEN "ModelFault"
    ELSE "unclassified"

\* C9: both entry points map one result the same way: success 0 / 200,
\* PageNotFound 3 / 404, ConnectionFault 2 / 502, ModelFault 4 / 500,
\* unclassified fault 99 / 500.
C9_EntryPointsAgree ==
    \A t \in Workers :
        (pc[t] = "done" /\ entry[t] \in {"cli", "http", "handlers"})
        => LET k == Taxonomy(outcome[t])
               exit == CASE k = "success" -> 0
                         [] k = "PageNotFound" -> 3
                         [] k = "ConnectionFault" -> 2
                         [] k = "ModelFault" -> 4
                         [] OTHER -> 99
               status == CASE k = "success" -> 200
                           [] k = "PageNotFound" -> 404
                           [] k = "ConnectionFault" -> 502
                           [] OTHER -> 500
           IN  /\ entry[t] \in {"cli", "handlers"} => exitCode[t] = exit
               /\ entry[t] \in {"http", "handlers"} => httpStatus[t] = status

C9_Witness ==
    \E t \in Workers :
        /\ pc[t] = "done" /\ entry[t] = "handlers"
        /\ Taxonomy(outcome[t]) = "unclassified"
        /\ exitCode[t] = 99 /\ httpStatus[t] = 500

\* the messages publish_draft's own faults start with
PublishFaultKinds ==
    { "Ne zadany kredy: WIKI_USERNAME / WIKI_PASSWORD", "Login ne udalsya: ",
      "Stranitsa zashchishchena ot zapisi: ", "Nedostatochno prav dlya pravki: ",
      "Pravka trebuet CAPTCHA", "Oshibka API pri sokhranenii: ",
      "Ne udalos sokhranit stranitsu: " }

IsPublishFault(o) ==
    o.kind = "raise" /\ o.exc.cls = "RuntimeError" /\ Head(o.exc.msg) \in PublishFaultKinds

\* C10: publish_draft with overwrite=False on a draft page that exists fails
\* with a publish fault and leaves the page as it was; the save request is
\* create-only exactly when overwrite is false.
C10_NoSilentOverwrite ==
    \A t \in Workers :
        (entry[t] = "publish" /\ pub[t].saved)
        => /\ pub[t].kwargs.createonly <=> ~pub[t].overwrite
           /\ (~pub[t].overwrite /\ pub[t].before # None)
              => /\ IsPublishFault(outcome[t])
                 /\ pub[t].after = pub[t].before

C10_Witness ==
    \E t \in Workers :
        /\ entry[t] = "publish" /\ pub[t].saved
        /\ ~pub[t].overwrite /\ pub[t].before = <<"old">>
        /\ pub[t].after = <<"old">>
        /\ outcome[t].exc.msg = <<"Oshibka API pri sokhranenii: ", "page exists">>

\* the publish fault kind named by the first token of a fault's message
PublishKind(o) ==
    LET h == Head(o.exc.msg)
    IN  CASE h = "Ne zadany kredy: WIKI_USERNAME / WIKI_PASSWORD" -> "missing-credentials"
          [] h = "Login ne udalsya: " -> "login-failed"
          [] h = "Stranitsa zashchishchena ot zapisi: " -> "protected"
          [] h = "Nedostatochno prav dlya pravki: " -> "forbidden"
          [] h = "Pravka trebuet CAPTCHA" -> "captcha-required"
          [] h = "Oshibka API pri sokhranenii: " -> "api-error"
          [] h = "Ne udalos sokhranit stranitsu: " -> "unknown"
          [] OTHER -> "none"

\* C11: a fault of the save is reported by kind: a protection fault (also one
\* that is an insufficient-rights fault as well) as protected, an
\* insufficient-rights fault as forbidden, an API fault whose code mentions
\* captcha as captcha-required, any other API fault as api-error, anything
\* else as unknown.
C11_SaveFaultKinds ==
    \A t \in Workers :
        (entry[t] = "publish" /\ pub[t].saved /\ pub[t].fault # NoExc)
        => LET f == pub[t].fault
               want ==
                   IF f.cls = "ProtectedPageError" THEN "protected"
                   ELSE IF f.cls = "InsufficientPermission" THEN "forbidden"
                   ELSE IF f.cls = "APIError" /\ (\E k \in 1..Len(f.code) :
                                f.code[k] \in {"captcha", "Captcha"})
                        THEN "captcha-required"
                   ELSE IF f.cls = "APIError" THEN "api-error"
                   ELSE "unknown"
           IN  /\ IsPublishFault(outcome[t])
               /\ PublishKind(outcome[t]) = want

C11_Witness ==
    \E t \in Workers :
        /\ entry[t] = "publish" /\ pub[t].saved
        /\ pub[t].fault.cls = "ProtectedPageError"
        /\ PublishKind(outcome[t]) = "protected"

\* C12: every failing call of publish_draft raises a publish fault of one of
\* the seven kinds; no fault of the site construction, of the login or of the
\* save escapes as it was raised.
C12_OnlyPublishFaults ==
    \A t \in Workers :
        (entry[t] = "publish" /\ pc[t] = "done" /\ outcome[t].kind = "raise")
        => IsPublishFault(outcome[t])

\* a value that is absent: not given, or given empty
Absent(v) == v \in {None, <<>>}

\* C13: when the username or the password is absent both as argument and in
\* the environment, publish_draft raises the missing-credentials fault and has
\* constructed no site, not logged in and saved nothing.
C13_NoCredsFailsBeforeAnyCall ==
    \A t \in Workers :
        (/\ entry[t] = "publish" /\ pc[t] # "pub_creds"
         /\ \E k \in 1..2 : Absent(pub[t].given[k]) /\ Absent(pub[t].env[k]))
        => /\ pc[t] = "done"
           /\ IsPublishFault(outcome[t])
           /\ PublishKind(outcome[t]) = "missing-credentials"
           /\ log[t] = <<>>
           /\ ~pub[t].saved

C13_Witness ==
    \E t \in Workers :
        /\ entry[t] = "publish" /\ pc[t] = "done"
        /\ pub[t].given = <<<<"bot">>, None>> /\ pub[t].env = <<<<"sk">>, <<>>>>
        /\ PublishKind(outcome[t]) = "missing-credentials"

RECURSIVE SumD(_)
SumD(evs) == IF evs = <<>> THEN 0 ELSE Head(evs).d + SumD(Tail(evs))

\* C14: the j-th sleep of a call lasts backoff * 2^(j-1), the index of the
\* attempt before it, with no other term, and the sleeps of one call add up to
\* at most backoff * (2^retries - 1).
C14_BackoffBound ==
    \A t \in Workers :
        LET sl == SleepEvents(t)
        IN  /\ \A j \in 1..Len(sl) : sl[j].d = backoff[t] * (2 ^ (j - 1))
            /\ SumD(sl) <= backoff[t] * ((2 ^ retries[t]) - 1)

C14_Witness ==
    \E t \in Workers :
        /\ FetchRaised(t) /\ retries[t] = 3 /\ backoff[t] = 2
        /\ Len(SleepEvents(t)) = 3
        /\ SumD(SleepEvents(t)) = 14

\* value is text without the whitespace at its two ends
IsStripOf(value, text) ==
    /\ value # <<>> => Head(value) \notin {" ", "\n"} /\ value[Len(value)] \notin {" ", "\n"}
    /\ \E a \in 0..Len(text), b \in 0..Len(text) :
          /\ a + Len(value) + b = Len(text)
          /\ SubSeq(text, a + 1, a + Len(value)) = value
          /\ \A k \in (1..a) \cup ((Len(text) - b + 1)..Len(text)) : text[k] \in {" ", "\n"}

\* C15: run_summarization returns the completion text without the whitespace
\* at its ends, or raises WikiConnectionError, PageNotFoundError or
\* OpenAIError; nothing else escapes, whatever the site open, the page reads
\* or the completion call raised, also for a completion without text.
C15_OnlyTaxonomyEscapes ==
    \A t \in Workers :
        Summarized(t) =>
            \/ /\ outcome[t].kind = "return"
               /\ completion[t] # None
               /\ IsStripOf(outcome[t].value, completion[t])
            \/ /\ outcome[t].kind = "raise"
               /\ outcome[t].exc.cls \in
                      {"WikiConnectionError", "PageNotFoundError", "OpenAIError"}

C15_Witness ==
    \E t \in Workers :
        /\ Summarized(t)
        /\ completion[t] = <<" ", "S", "\n">>
        /\ outcome[t] = Return(<<>>, <<"S">>)

\* C16: in one run_summarization the outside calls come in the order site
\* open, page reads (with their sleeps), model call: the site is opened first
\* and once, the model is called at most once, as the last call, after a page
\* read that succeeded and with the prompt built.
C16_StepsInOrder ==
    \A t \in Workers :
        entry[t] \in {"cli", "http"} =>
            LET L == log[t]
            IN  /\ \A j \in 1..Len(L) : (L[j].ev = "open") <=> (j = 1)
                /\ \A j \in 1..Len(L) : L[j].ev \in {"open", "read", "sleep", "model"}
                /\ \A j \in 1..Len(L) :
                      L[j].ev = "model" =>
                          /\ j = Len(L)
                          /\ j > 1 /\ L[j - 1].ev = "read" /\ L[j - 1].res = "ok"
                          /\ fetched[t].kind = "return"
                          /\ prompt[t] = build_prompt(fetched[t].value, fetched[t].name)

C16_Witness ==
    \E t \in Workers :
        /\ Summarized(t)
        /\ Len(log[t]) = 5
        /\ log[t][2].res = "HTTPError" /\ log[t][3].ev = "sleep"
        /\ log[t][4].res = "ok" /\ log[t][5].ev = "model"

\* C18: when fetch_wikitext fails after at least one page read, the fault it
\* raises carries the cause of the last page read made, never that of an
\* earlier one.
C18_LastCauseCarried ==
    \A t \in Workers :
        (FetchRaised(t) /\ ReadEvents(t) # <<>>)
        => /\ lastFault[t] # NoExc
           /\ fetched[t].exc.cls = "RuntimeError"
           /\ fetched[t].exc.msg =
                  <<"Ne udalos poluchit statyu '">> \o title[t] \o <<"': ">>
                  \o lastFault[t].msg

C18_Witness ==
    \E t \in Workers :
        /\ FetchRaised(t) /\ retries[t] = 2
        /\ Len(ReadEvents(t)) = 2
        /\ ReadEvents(t)[1].res = "HTTPError"
        /\ lastFault[t] = Exc("InvalidResponse", <<"bad json">>)

\* the page reads of a worker that raised a transport fault
TransportReads(t) ==
    SelectSeq(log[t], LAMBDA e : e.ev = "read" /\ e.res \in TransportFaultClasses)

\* C19: a sleep follows every transport fault, the one of the last attempt
\* included: a finished call has slept as often as it met transport faults,
\* and when all retries attempts met one it slept retries times, the last
\* time for backoff * 2^(retries-1), before raising.
C19_SleepAfterEveryTransportFault ==
    \A t \in Workers :
        LET ev == FetchEvents(t)
        IN  /\ \A j \in 1..Len(ev) :
                  (ev[j].ev = "read" /\ ev[j].res \in TransportFaultClasses)
                  => IF j = Len(ev) THEN pc[t] = "fetch_sleep" ELSE ev[j + 1].ev = "sleep"
            /\ (~InFetch(t) /\ fetched[t].kind # "none")
               => /\ Len(SleepEvents(t)) = Len(TransportReads(t))
                  /\ (retries[t] > 0 /\ Len(TransportReads(t)) = retries[t])
                     => /\ fetched[t].kind = "raise"
                        /\ ev[Len(ev)] =
                               Ev("sleep", "", backoff[t] * (2 ^ (retries[t] - 1)))

C19_Witness ==
    \E t \in Workers :
        /\ FetchRaised(t) /\ retries[t] = 3
        /\ Len(TransportReads(t)) = 3
        /\ Len(SleepEvents(t)) = 3

\* everything one invocation reads and writes
Local(t) ==
    <<pc[t], entry[t], title[t], retries[t], backoff[t], i[t], last_err[t],
      fetched[t], environ[t], outcome[t], exitCode[t], httpStatus[t], site[t],
      prompt[t], pub[t], completion[t], lastFault[t], log[t]>>

\* C17: with two invocations of run_summarization at once, under every
\* interleaving, the state of an invocation (its attempts, sleeps and outcome)
\* changes only by a step of its own code, taken exactly as when it runs
\* alone, and while one invocation sleeps between attempts every other
\* unfinished invocation can take its next step.
C17_InvocationsIndependent ==
    /\ [][\A t \in Workers : Local(t)' # Local(t) => StepConc(t)]_vars
    /\ [](\A t \in Workers, u \in Workers :
             (t # u /\ pc[t] = "fetch_sleep" /\ pc[u] # "done") => ENABLED StepConc(u))

C17_Witness ==
    /\ pc["w1"] = "fetch_sleep" /\ Len(SleepEvents("w1")) = 1
    /\ pc["w2"] = "done" /\ Len(SleepEvents("w2")) = 2
    /\ outcome["w2"].kind = "return"

====
